---- MODULE Spec2Model ----
(***************************************************************************)
(* Model of the market-maker contract (contracts/maker/src/contract.rs):   *)
(* the pricing helpers reservation_price, new_head_prices,                 *)
(* head_chg_is_gt_tol, new_tail_prices, split_open_orders, create_orders   *)
(* and the entry points instantiate and get_action.                        *)
(*                                                                         *)
(* Decimal256 is an unsigned fixed-point number: an integer count of       *)
(* atomics, DecimalFractional atomics to the unit.  Multiplication         *)
(* truncates towards zero, subtraction panics below zero.  The model keeps *)
(* that arithmetic and shrinks the number of atomics per unit.             *)
(***************************************************************************)
EXTENDS Integers, Sequences, FiniteSets, TLC

VARIABLES
    call,       \* the pure function under test and its arguments
    ret,        \* <<>> before the function returned, <<value>> after
    config,     \* the State singleton saved under CONFIG_KEY, <<>> when none
    request,    \* the arguments of the last get_action query, <<>> when none
    response,   \* what the last get_action query returned, <<>> when none
    previous,   \* the query before the last and its applied plan, <<>> when none
    replied     \* the last reply call and what it returned, <<>> when none

vars == <<call, ret, config, request, response, previous, replied>>

----------------------------------------------------------------------------
(* Bounds of the model *)

\* atomics per unit (the code's Decimal256 has 10^18)
DecimalFractional == 10
\* largest price, in atomics, given to the pure functions
MaxPrice == 8
\* largest volatility, in atomics, given to the pure functions
MaxVol == 6
\* longest list of resting orders given to split_open_orders
MaxOrders == 3

----------------------------------------------------------------------------
(* Decimal256 arithmetic *)

\* the value of a call that panicked (no value is returned)
Panic == -1

One == DecimalFractional

Zero == 0

IsPanic(a) == a = Panic

Add(a, b) == IF IsPanic(a) \/ IsPanic(b) THEN Panic ELSE a + b

\* Decimal256 - Decimal256: panics when the result would be negative
Sub(a, b) == IF IsPanic(a) \/ IsPanic(b) \/ b > a THEN Panic ELSE a - b

\* Decimal256 * Decimal256: the full product divided by 10^18, truncated
Mul(a, b) == IF IsPanic(a) \/ IsPanic(b) THEN Panic ELSE (a * b) \div DecimalFractional

\* utils::sub_abs: |lhs - rhs| without a negative intermediate
sub_abs(lhs, rhs) ==
    IF IsPanic(lhs) \/ IsPanic(rhs) THEN Panic
    ELSE IF lhs > rhs THEN lhs - rhs ELSE rhs - lhs

\* utils::div_dec: 0 when the denominator is 0, else the Decimal quotient
div_dec(num, denom) ==
    IF IsPanic(num) \/ IsPanic(denom) THEN Panic
    ELSE IF denom = Zero THEN Zero
    ELSE (num * DecimalFractional) \div denom

----------------------------------------------------------------------------
(* The pricing helpers of contract.rs *)

\* reservation_price with the direction test inverted
reservation_price_inverted(mid_price, inv_imbal, volatility, reservation_param, imbal_is_long) ==
    IF inv_imbal = Zero THEN mid_price
    ELSE IF ~imbal_is_long
         THEN Sub(mid_price, Mul(Mul(inv_imbal, volatility), reservation_param))
         ELSE Add(mid_price, Mul(Mul(inv_imbal, volatility), reservation_param))

\* reservation_price that forgets the imbalance: no zero test, no imbalance factor
reservation_price_no_imbal(mid_price, inv_imbal, volatility, reservation_param, imbal_is_long) ==
    IF imbal_is_long
    THEN Sub(mid_price, Mul(volatility, reservation_param))
    ELSE Add(mid_price, Mul(volatility, reservation_param))

reservation_price(mid_price, inv_imbal, volatility, reservation_param, imbal_is_long) ==
    IF inv_imbal = Zero THEN mid_price
    ELSE IF imbal_is_long
         THEN Sub(mid_price, Mul(Mul(inv_imbal, volatility), reservation_param))
         ELSE Add(mid_price, Mul(Mul(inv_imbal, volatility), reservation_param))

\* new_head_prices with the two heads in the wrong order
new_head_prices_swapped(volatility, reservation_price_, spread_param) ==
    LET dist_from_reservation_price == div_dec(Mul(volatility, spread_param), 2 * One)
        buy  == Sub(reservation_price_, dist_from_reservation_price)
        sell == Add(reservation_price_, dist_from_reservation_price)
    IN  IF IsPanic(buy) \/ IsPanic(sell) THEN <<Panic, Panic>> ELSE <<sell, buy>>

\* new_head_prices that forgets to halve the spread
new_head_prices_full_spread(volatility, reservation_price_, spread_param) ==
    LET dist_from_reservation_price == Mul(volatility, spread_param)
        buy  == Sub(reservation_price_, dist_from_reservation_price)
        sell == Add(reservation_price_, dist_from_reservation_price)
    IN  IF IsPanic(buy) \/ IsPanic(sell) THEN <<Panic, Panic>> ELSE <<buy, sell>>

\* <<buy_head, sell_head>>; <<Panic, Panic>> when the subtraction panics
new_head_prices(volatility, reservation_price_, spread_param) ==
    LET dist_from_reservation_price == div_dec(Mul(volatility, spread_param), 2 * One)
        buy  == Sub(reservation_price_, dist_from_reservation_price)
        sell == Add(reservation_price_, dist_from_reservation_price)
    IN  IF IsPanic(buy) \/ IsPanic(sell) THEN <<Panic, Panic>> ELSE <<buy, sell>>

\* head_chg_is_gt_tol with >= in place of >
head_chg_is_gt_tol_ge(open_orders, new_head, head_chg_tol) ==
    IF Len(open_orders) = 0 THEN TRUE
    ELSE LET old_head == open_orders[1].price
         IN  div_dec(sub_abs(old_head, new_head), old_head) >= head_chg_tol

\* head_chg_is_gt_tol that takes the head of an empty side to be at price zero
head_chg_is_gt_tol_no_bootstrap(open_orders, new_head, head_chg_tol) ==
    LET old_head == IF Len(open_orders) = 0 THEN Zero ELSE open_orders[1].price
    IN  div_dec(sub_abs(old_head, new_head), old_head) > head_chg_tol

head_chg_is_gt_tol(open_orders, new_head, head_chg_tol) ==
    IF Len(open_orders) = 0 THEN TRUE
    ELSE LET old_head == open_orders[1].price
         IN  div_dec(sub_abs(old_head, new_head), old_head) > head_chg_tol

\* risk_management::check_tail_dist: a proposed tail closer to its head than
\* min_tail_dist (or on the wrong side of it) gives way to the tail at exactly
\* the minimum distance; <<Panic, Panic>> when an operand panicked
check_tail_dist(buy_head, sell_head, proposed_buy_tail, proposed_sell_tail, min_tail_dist) ==
    LET buy_tail ==
            IF proposed_buy_tail > buy_head
               \/ div_dec(Sub(buy_head, proposed_buy_tail), buy_head) < min_tail_dist
            THEN Mul(buy_head, Sub(One, min_tail_dist))
            ELSE proposed_buy_tail
        sell_tail ==
            IF proposed_sell_tail < sell_head
               \/ div_dec(Sub(proposed_sell_tail, sell_head), sell_head) < min_tail_dist
            THEN Mul(sell_head, Add(One, min_tail_dist))
            ELSE proposed_sell_tail
    IN  IF IsPanic(proposed_buy_tail) \/ IsPanic(proposed_sell_tail)
           \/ IsPanic(buy_tail) \/ IsPanic(sell_tail)
        THEN <<Panic, Panic>>
        ELSE <<buy_tail, sell_tail>>

\* new_tail_prices with the two proposals on the wrong sides of the mid price
new_tail_prices_swapped(buy_head, sell_head, mid_price, tail_dist_from_mid, min_tail_dist) ==
    LET proposed_buy_tail  == Mul(mid_price, Add(One, tail_dist_from_mid))
        proposed_sell_tail == Mul(mid_price, Sub(One, tail_dist_from_mid))
    IN  check_tail_dist(buy_head, sell_head, proposed_buy_tail, proposed_sell_tail, min_tail_dist)

new_tail_prices(buy_head, sell_head, mid_price, tail_dist_from_mid, min_tail_dist) ==
    LET proposed_buy_tail  == Mul(mid_price, Sub(One, tail_dist_from_mid))
        proposed_sell_tail == Mul(mid_price, Add(One, tail_dist_from_mid))
    IN  check_tail_dist(buy_head, sell_head, proposed_buy_tail, proposed_sell_tail, min_tail_dist)

\* order_type of a buy order and of a sell order
BuyType == 1

SellType == 2

\* Iterator::filter: the elements that satisfy the test, in their order
RECURSIVE FilterType(_, _)
FilterType(orders, order_type) ==
    IF orders = <<>> THEN <<>>
    ELSE IF Head(orders).order_type = order_type
         THEN <<Head(orders)>> \o FilterType(Tail(orders), order_type)
         ELSE FilterType(Tail(orders), order_type)

\* the comparator of sort_by: TRUE when a may not stand after b
\* (descending: b.price.partial_cmp(a.price); ascending: a.price.partial_cmp(b.price))
ComesAfter(a, b, descending) ==
    IF descending THEN a.price < b.price ELSE a.price > b.price

\* one insertion of a stable sort: o goes behind every element it does not precede
RECURSIVE InsertSorted(_, _, _)
InsertSorted(sorted, o, descending) ==
    IF sorted = <<>> THEN <<o>>
    ELSE IF ComesAfter(Head(sorted), o, descending)
         THEN <<o>> \o sorted
         ELSE <<Head(sorted)>> \o InsertSorted(Tail(sorted), o, descending)

\* slice::sort_by, a stable sort
RECURSIVE sort_by(_, _)
sort_by(orders, descending) ==
    IF orders = <<>> THEN <<>>
    ELSE InsertSorted(sort_by(SubSeq(orders, 1, Len(orders) - 1), descending),
                      orders[Len(orders)], descending)

\* split_open_orders with both sides sorted ascending
split_open_orders_ascending(open_orders) ==
    IF Len(open_orders) > 0
    THEN LET buy_orders  == FilterType(open_orders, BuyType)
             sell_orders == FilterType(open_orders, SellType)
         IN  <<sort_by(buy_orders, FALSE), sort_by(sell_orders, FALSE)>>
    ELSE <<<<>>, <<>>>>

\* split_open_orders whose filter keeps every order that is not a buy
split_open_orders_keeps_others(open_orders) ==
    IF Len(open_orders) > 0
    THEN LET buy_orders  == FilterType(open_orders, BuyType)
             sell_orders == SelectSeq(open_orders, LAMBDA o : o.order_type # BuyType)
         IN  <<sort_by(buy_orders, TRUE), sort_by(sell_orders, FALSE)>>
    ELSE <<<<>>, <<>>>>

\* <<buy_orders, sell_orders>>
split_open_orders(open_orders) ==
    IF Len(open_orders) > 0
    THEN LET buy_orders  == FilterType(open_orders, BuyType)
             sell_orders == FilterType(open_orders, SellType)
         IN  <<sort_by(buy_orders, TRUE), sort_by(sell_orders, FALSE)>>
    ELSE <<<<>>, <<>>>>

----------------------------------------------------------------------------
(* Options and the collaborators of get_action outside contract.rs *)

None == <<>>

Some(x) == <<x>>

\* basis points in a unit
BasisPoints == 10000

\* utils::bp_to_dec: basis points to a fraction
bp_to_dec(bp) == div_dec(bp, BasisPoints * One)

\* inv_imbalance_deriv that does not clamp the ratio
inv_imbalance_deriv_unclamped(position, inv_val) ==
    IF position = None THEN <<Zero, TRUE>>
    ELSE LET p == position[1]
             ratio == div_dec(Mul(p.quantity, p.entry_price), inv_val)
         IN  <<ratio, p.is_long>>

\* derivative::inv_imbalance_deriv: <<imbalance, is_long>>; the value of the
\* position over the value of the account, at most 1, and 0 without a position
inv_imbalance_deriv(position, inv_val) ==
    IF position = None THEN <<Zero, TRUE>>
    ELSE LET p     == position[1]
             ratio == div_dec(Mul(p.quantity, p.entry_price), inv_val)
         IN  <<IF ratio > One THEN One ELSE ratio, p.is_long>>

\* risk_management::get_alloc_bal_new_orders: the active share of the account
\* less the margin already committed, never below zero
get_alloc_bal_new_orders(inv_val, position_margin, active_capital) ==
    LET active == Mul(inv_val, active_capital)
    IN  IF position_margin > active THEN Zero ELSE active - position_margin

\* derivative::create_new_orders_deriv: order_density levels evenly spaced from
\* the head to the tail, head first; the quantity of a level comes from the
\* opposing position when there is one and from the leveraged capital
\* otherwise; no level when there is nothing to quote
create_new_orders_deriv(new_head, new_tail, alloc_val, position_qty, is_buy, state, market) ==
    LET n     == state.order_density
        total == IF position_qty > Zero THEN position_qty
                 ELSE div_dec(Mul(alloc_val, state.leverage), new_head)
        qty   == div_dec(total, n * One)
        step  == IF n > 1 THEN div_dec(sub_abs(new_head, new_tail), (n - 1) * One) ELSE Zero
    IN  IF n = 0 \/ (position_qty = Zero /\ alloc_val = Zero) THEN <<>>
        ELSE [i \in 1 .. n |->
                [market_id  |-> market.market_id,
                 order_type |-> IF is_buy THEN BuyType ELSE SellType,
                 price      |-> IF is_buy THEN new_head - (i - 1) * step
                                          ELSE new_head + (i - 1) * step,
                 quantity   |-> qty]]

----------------------------------------------------------------------------
(* create_orders and the entry points of contract.rs *)

\* position_basis that takes the margin on the opposite side and the quantity
\* on the same side
position_basis_inverted(position, is_buy) ==
    IF position = None THEN <<Zero, Zero>>
    ELSE IF position[1].is_long # is_buy THEN <<Zero, position[1].margin>>
         ELSE <<position[1].quantity, Zero>>

\* create_orders, the match on the position: <<position_qty, position_margin>>
position_basis(position, is_buy) ==
    IF position = None THEN <<Zero, Zero>>
    ELSE IF position[1].is_long = is_buy THEN <<Zero, position[1].margin>>
         ELSE <<position[1].quantity, Zero>>

\* alloc_val_for_new_orders with the account value and the margin exchanged
alloc_val_for_new_orders_swapped(inv_val, position, is_buy, state) ==
    get_alloc_bal_new_orders(position_basis(position, is_buy)[2], inv_val,
                             state.active_capital)

\* create_orders, the capital it allocates to the new orders of a side
alloc_val_for_new_orders(inv_val, position, is_buy, state) ==
    get_alloc_bal_new_orders(inv_val, position_basis(position, is_buy)[2],
                             state.active_capital)

\* create_orders that gives the ladder builder the tail where the head belongs
create_orders_tail_first(new_head, new_tail, inv_val, position, is_buy, state, market) ==
    create_new_orders_deriv(new_tail, new_head,
                            alloc_val_for_new_orders(inv_val, position, is_buy, state),
                            position_basis(position, is_buy)[1], is_buy, state, market)

create_orders(new_head, new_tail, inv_val, position, is_buy, state, market) ==
    create_new_orders_deriv(new_head, new_tail,
                            alloc_val_for_new_orders(inv_val, position, is_buy, state),
                            position_basis(position, is_buy)[1], is_buy, state, market)

\* the message of a cancel-all-and-replace plan
BatchUpdateOrders(state, sender, orders_to_create) ==
    [sender                              |-> sender,
     subaccount_id                       |-> state.subaccount_id,
     spot_market_ids_to_cancel_all       |-> <<>>,
     derivative_market_ids_to_cancel_all |-> <<state.market_id>>,
     spot_orders_to_cancel               |-> <<>>,
     derivative_orders_to_cancel         |-> <<>>,
     spot_orders_to_create               |-> <<>>,
     derivative_orders_to_create         |-> orders_to_create]

\* what a query returns: Ok(WrappedGetActionResponse { msgs }), or nothing
Ok(msgs) == [panicked |-> FALSE, msgs |-> msgs]

Panicked == [panicked |-> TRUE, msgs |-> <<>>]

\* get_action that replaces whatever the gates say
get_action_no_gate(state, sender, req) ==
    LET imbal  == inv_imbalance_deriv(req.position, req.inv_val)
        res    == reservation_price(req.mid_price, imbal[1], req.volatility,
                                    state.reservation_param, imbal[2])
        heads  == new_head_prices(req.volatility, res, state.spread_param)
        tails  == new_tail_prices(heads[1], heads[2], req.mid_price,
                                  state.tail_dist_from_mid, state.min_tail_dist)
        buy_orders_to_open  == create_orders(heads[1], tails[1], req.inv_val, req.position,
                                             TRUE, state, req.market)
        sell_orders_to_open == create_orders(heads[2], tails[2], req.inv_val, req.position,
                                             FALSE, state, req.market)
    IN  IF IsPanic(res) \/ IsPanic(heads[1]) \/ IsPanic(tails[1]) THEN Panicked
        ELSE Ok(<<BatchUpdateOrders(state, sender,
                                    buy_orders_to_open \o sell_orders_to_open)>>)

\* get_action that replaces only when both sides trip the gate
get_action_both_gates(state, sender, req) ==
    LET imbal  == inv_imbalance_deriv(req.position, req.inv_val)
        res    == reservation_price(req.mid_price, imbal[1], req.volatility,
                                    state.reservation_param, imbal[2])
        heads  == new_head_prices(req.volatility, res, state.spread_param)
        open   == split_open_orders(req.open_orders)
        tails  == new_tail_prices(heads[1], heads[2], req.mid_price,
                                  state.tail_dist_from_mid, state.min_tail_dist)
        buy_orders_to_open  == create_orders(heads[1], tails[1], req.inv_val, req.position,
                                             TRUE, state, req.market)
        sell_orders_to_open == create_orders(heads[2], tails[2], req.inv_val, req.position,
                                             FALSE, state, req.market)
    IN  IF IsPanic(res) \/ IsPanic(heads[1]) THEN Panicked
        ELSE IF head_chg_is_gt_tol(open[1], heads[1], state.head_chg_tol)
                /\ head_chg_is_gt_tol(open[2], heads[2], state.head_chg_tol)
             THEN IF IsPanic(tails[1]) THEN Panicked
                  ELSE Ok(<<BatchUpdateOrders(state, sender,
                                              buy_orders_to_open \o sell_orders_to_open)>>)
             ELSE Ok(<<>>)

\* get_action that holds the open sells against the new buy head
get_action_sells_vs_buy_head(state, sender, req) ==
    LET imbal  == inv_imbalance_deriv(req.position, req.inv_val)
        res    == reservation_price(req.mid_price, imbal[1], req.volatility,
                                    state.reservation_param, imbal[2])
        heads  == new_head_prices(req.volatility, res, state.spread_param)
        open   == split_open_orders(req.open_orders)
        tails  == new_tail_prices(heads[1], heads[2], req.mid_price,
                                  state.tail_dist_from_mid, state.min_tail_dist)
        buy_orders_to_open  == create_orders(heads[1], tails[1], req.inv_val, req.position,
                                             TRUE, state, req.market)
        sell_orders_to_open == create_orders(heads[2], tails[2], req.inv_val, req.position,
                                             FALSE, state, req.market)
    IN  IF IsPanic(res) \/ IsPanic(heads[1]) THEN Panicked
        ELSE IF head_chg_is_gt_tol(open[1], heads[1], state.head_chg_tol)
                \/ head_chg_is_gt_tol(open[2], heads[1], state.head_chg_tol)
             THEN IF IsPanic(tails[1]) THEN Panicked
                  ELSE Ok(<<BatchUpdateOrders(state, sender,
                                              buy_orders_to_open \o sell_orders_to_open)>>)
             ELSE Ok(<<>>)

\* get_action(deps, env, market, .., open_orders, deposit, position, .., volatility,
\* mid_price): req holds the arguments after wrapping and parsing
get_action(state, sender, req) ==
    LET imbal  == inv_imbalance_deriv(req.position, req.inv_val)
        res    == reservation_price(req.mid_price, imbal[1], req.volatility,
                                    state.reservation_param, imbal[2])
        heads  == new_head_prices(req.volatility, res, state.spread_param)
        open   == split_open_orders(req.open_orders)
        tails  == new_tail_prices(heads[1], heads[2], req.mid_price,
                                  state.tail_dist_from_mid, state.min_tail_dist)
        buy_orders_to_open  == create_orders(heads[1], tails[1], req.inv_val, req.position,
                                             TRUE, state, req.market)
        sell_orders_to_open == create_orders(heads[2], tails[2], req.inv_val, req.position,
                                             FALSE, state, req.market)
    IN  IF IsPanic(res) \/ IsPanic(heads[1]) THEN Panicked
        ELSE IF head_chg_is_gt_tol(open[1], heads[1], state.head_chg_tol)
                \/ head_chg_is_gt_tol(open[2], heads[2], state.head_chg_tol)
             THEN IF IsPanic(tails[1]) THEN Panicked
                  ELSE Ok(<<BatchUpdateOrders(state, sender,
                                              buy_orders_to_open \o sell_orders_to_open)>>)
             ELSE Ok(<<>>)

INSTANTIATE_REPLY_ID == 1

\* what an entry point did: returned Ok, returned Err, or panicked; stored is
\* the content of the storage afterwards (a call that fails writes nothing)
Outcome(result, stored) == [result |-> result, stored |-> stored]

\* the data of a reply without the address of an instantiated contract
NoData == <<>>

\* Api::addr_validate: the empty string is no address
addr_validate(contract_address) == contract_address # ""

\* handle_instantiate_reply: stored is <<>> or <<State>>
handle_instantiate_reply(stored, msg) ==
    IF msg.data = NoData THEN Outcome("panic", stored)
    ELSE IF ~addr_validate(msg.data[1]) THEN Outcome("err", stored)
    ELSE IF stored = None THEN Outcome("panic", stored)
    ELSE Outcome("ok", Some([stored[1] EXCEPT !.lp_token_address = msg.data[1]]))

\* reply that takes every id for the id of the instantiate submessage
reply_any_id(stored, msg) == handle_instantiate_reply(stored, msg)

\* reply
reply(stored, msg) ==
    IF msg.id = INSTANTIATE_REPLY_ID THEN handle_instantiate_reply(stored, msg)
    ELSE Outcome("err", stored)

\* the State that instantiate builds from its message
NewState(msg) ==
    [market_id             |-> msg.market_id,
     subaccount_id         |-> msg.sub_account,
     fee_recipient         |-> msg.fee_recipient,
     is_deriv              |-> msg.is_deriv,
     leverage              |-> msg.leverage,
     order_density         |-> msg.order_density,
     max_market_data_delay |-> msg.max_market_data_delay,
     reservation_param     |-> msg.reservation_param,
     spread_param          |-> msg.spread_param,
     active_capital        |-> msg.active_capital,
     head_chg_tol          |-> bp_to_dec(msg.head_chg_tol_bp),
     tail_dist_from_mid    |-> bp_to_dec(msg.tail_dist_from_mid_bp),
     min_tail_dist         |-> bp_to_dec(msg.min_tail_dist_bp),
     lp_token_address      |-> "LP-Token"]

----------------------------------------------------------------------------
(* exchange/types.rs: identifiers. A string is a sequence of characters; its
   len() is the number of bytes of its UTF-8 encoding. *)

\* the characters the identifiers of the model are written with; "U+00E9" is
\* the one character e with acute accent
Chars == {"0", "x", "X", "a", "A", "U+00E9"}

\* bytes of a character in UTF-8: one for ASCII, two for U+00E9
Utf8Len(c) == IF c = "U+00E9" THEN 2 ELSE 1

RECURSIVE len(_)
\* String::len
len(s) == IF s = <<>> THEN 0 ELSE Utf8Len(Head(s)) + len(Tail(s))

\* str::starts_with
starts_with(s, prefix) ==
    /\ Len(s) >= Len(prefix)
    /\ SubSeq(s, 1, Len(prefix)) = prefix

\* char::to_lowercase
LowerChar(c) == IF c = "X" THEN "x" ELSE IF c = "A" THEN "a" ELSE c

\* str::to_lowercase
to_lowercase(s) == [i \in 1 .. Len(s) |-> LowerChar(s[i])]

HexPrefix == <<"0", "x">>

IdLen == 66

IdOk(id) == [ok |-> TRUE, id |-> id, err |-> ""]

IdErr(msg) == [ok |-> FALSE, id |-> <<>>, err |-> msg]

\* MarketId::new that checks the length before the prefix
MarketId_new_length_first(market_id_s) ==
    IF len(market_id_s) # IdLen
    THEN IdErr("Invalid length: market_id must be exactly 66 characters")
    ELSE IF ~starts_with(market_id_s, HexPrefix)
    THEN IdErr("Invalid prefix: market_id must start with 0x")
    ELSE IdOk(to_lowercase(market_id_s))

\* MarketId::new
MarketId_new(market_id_s) ==
    IF ~starts_with(market_id_s, HexPrefix)
    THEN IdErr("Invalid prefix: market_id must start with 0x")
    ELSE IF len(market_id_s) # IdLen
    THEN IdErr("Invalid length: market_id must be exactly 66 characters")
    ELSE IdOk(to_lowercase(market_id_s))

\* SubaccountId::new
SubaccountId_new(subaccount_id_s) ==
    IF ~starts_with(subaccount_id_s, HexPrefix)
    THEN IdErr("Invalid prefix: subaccount_id must start with 0x")
    ELSE IF len(subaccount_id_s) # IdLen
    THEN IdErr("Invalid length: subaccount_id must be exactly 66 characters")
    ELSE IdOk(to_lowercase(subaccount_id_s))

----------------------------------------------------------------------------
(* The pure functions, each applied once to arguments drawn from bounded sets *)

Prices == 0 .. MaxPrice

Fractions == 0 .. One

Vols == 0 .. MaxVol

NotCalled == <<>>

\* a resting order: the fields the helpers read, order_hash telling orders apart
OrdersOfLen(n, kinds) ==
    { [i \in 1 .. n |-> [order_type |-> f[i][1], price |-> f[i][2], order_hash |-> i]] :
        f \in [1 .. n -> kinds] }

OrderLists == UNION { OrdersOfLen(n, (1 .. 3) \X (1 .. 3)) : n \in 0 .. MaxOrders }

\* one side's resting orders as the gate receives them
SideLists ==
    {<<>>}
    \cup { <<[order_type |-> BuyType, price |-> p, order_hash |-> 1]>> : p \in Prices }
    \cup { <<[order_type |-> BuyType, price |-> p, order_hash |-> 1],
             [order_type |-> BuyType, price |-> 1, order_hash |-> 2]>> : p \in Prices }

InitHeadChgIsGtTol ==
    \E o \in SideLists, h \in Prices, t \in Fractions :
        call = [fn |-> "head_chg_is_gt_tol", open_orders |-> o, new_head |-> h,
                head_chg_tol |-> t]

InitNewTailPrices ==
    \E b \in Prices, s \in Prices, m \in Prices, t \in Fractions, d \in Fractions :
        call = [fn |-> "new_tail_prices", buy_head |-> b, sell_head |-> s, mid_price |-> m,
                tail_dist_from_mid |-> t, min_tail_dist |-> d]

\* books in which one order occurs one to MaxOrders times, before another order
RepeatedLists ==
    { [i \in 1 .. n + 1 |->
         IF i <= n THEN [order_type |-> k[1], price |-> k[2], order_hash |-> 1]
         ELSE [order_type |-> SellType, price |-> 2, order_hash |-> 2]] :
        k \in (1 .. 3) \X (1 .. 3), n \in 1 .. MaxOrders }

InitSplitOpenOrders ==
    \E o \in OrderLists \cup RepeatedLists : call = [fn |-> "split_open_orders", open_orders |-> o]

InitReservationPrice ==
    \E m \in Prices, i \in Fractions, v \in Vols, r \in Fractions, l \in BOOLEAN :
        call = [fn |-> "reservation_price", mid_price |-> m, inv_imbal |-> i,
                volatility |-> v, reservation_param |-> r, imbal_is_long |-> l]

InitNewHeadPrices ==
    \E v \in Vols, r \in Prices, s \in Fractions :
        call = [fn |-> "new_head_prices", volatility |-> v, reservation_price |-> r,
                spread_param |-> s]

\* positions given to create_orders and inv_imbalance_deriv
PurePositions ==
    {None}
    \cup { Some([is_long |-> l, quantity |-> q, entry_price |-> e, margin |-> m]) :
             l \in BOOLEAN, q \in {Zero, One \div 2, 2 * One}, e \in {One \div 2, One},
             m \in {Zero, 3} }

InitCreateOrders ==
    \E h \in {Zero, 4, MaxPrice}, t \in {2, MaxPrice + 2}, v \in {Zero, 4, 2 * One},
       p \in PurePositions, b \in BOOLEAN, a \in {Zero, One \div 2, One},
       l \in {One, 2 * One}, n \in 1 .. MaxOrders :
        call = [fn |-> "create_orders", new_head |-> h, new_tail |-> t, inv_val |-> v,
                position |-> p, is_buy |-> b,
                state |-> [active_capital |-> a, leverage |-> l, order_density |-> n],
                market |-> [market_id |-> "0xmarket"]]

InitInvImbalanceDeriv ==
    \E p \in PurePositions, v \in {Zero, 4, One, 2 * One, 4 * One} :
        call = [fn |-> "inv_imbalance_deriv", position |-> p, inv_val |-> v]

\* strings around the accepted length: a prefix, a run of one character, and
\* possibly one more character
IdStrings ==
    { p \o [i \in 1 .. n |-> c] \o t :
        p \in {HexPrefix, <<"0", "X">>, <<"x", "0">>, <<>>},
        n \in (IdLen - 5) .. (IdLen - 1),
        c \in {"a", "A"},
        t \in {<<>>, <<"A">>, <<"U+00E9">>} }

InitIdNew ==
    \E f \in {"MarketId::new", "SubaccountId::new"}, s \in IdStrings :
        call = [fn |-> f, id |-> s]

PureInit ==
    /\ \/ InitHeadChgIsGtTol
       \/ InitIdNew
       \/ InitCreateOrders
       \/ InitInvImbalanceDeriv
       \/ InitNewTailPrices
       \/ InitSplitOpenOrders
       \/ InitReservationPrice
       \/ InitNewHeadPrices
    /\ ret = NotCalled
    /\ config = <<>>
    /\ request = <<>>
    /\ response = <<>>
    /\ previous = <<>>
    /\ replied = <<>>

Pending(fn) == call.fn = fn /\ ret = NotCalled

CallHeadChgIsGtTol ==
    /\ Pending("head_chg_is_gt_tol")
    /\ ret' = <<head_chg_is_gt_tol(call.open_orders, call.new_head, call.head_chg_tol)>>
    /\ UNCHANGED <<call, config, request, response, previous, replied>>

CallNewTailPrices ==
    /\ Pending("new_tail_prices")
    /\ ret' = <<new_tail_prices(call.buy_head, call.sell_head, call.mid_price,
                                call.tail_dist_from_mid, call.min_tail_dist)>>
    /\ UNCHANGED <<call, config, request, response, previous, replied>>

CallSplitOpenOrders ==
    /\ Pending("split_open_orders")
    /\ ret' = <<split_open_orders(call.open_orders)>>
    /\ UNCHANGED <<call, config, request, response, previous, replied>>

CallReservationPrice ==
    /\ Pending("reservation_price")
    /\ ret' = <<reservation_price(call.mid_price, call.inv_imbal, call.volatility,
                                  call.reservation_param, call.imbal_is_long)>>
    /\ UNCHANGED <<call, config, request, response, previous, replied>>

CallNewHeadPrices ==
    /\ Pending("new_head_prices")
    /\ ret' = <<new_head_prices(call.volatility, call.reservation_price, call.spread_param)>>
    /\ UNCHANGED <<call, config, request, response, previous, replied>>

\* create_orders: its locals and the ladder it returns
CallCreateOrders ==
    /\ Pending("create_orders")
    /\ ret' = <<[position_qty    |-> position_basis(call.position, call.is_buy)[1],
                 position_margin |-> position_basis(call.position, call.is_buy)[2],
                 alloc_val_for_new_orders |->
                     alloc_val_for_new_orders(call.inv_val, call.position, call.is_buy,
                                              call.state),
                 orders |-> create_orders(call.new_head, call.new_tail, call.inv_val,
                                          call.position, call.is_buy, call.state,
                                          call.market)]>>
    /\ UNCHANGED <<call, config, request, response, previous, replied>>

CallInvImbalanceDeriv ==
    /\ Pending("inv_imbalance_deriv")
    /\ ret' = <<inv_imbalance_deriv(call.position, call.inv_val)>>
    /\ UNCHANGED <<call, config, request, response, previous, replied>>

CallMarketIdNew ==
    /\ Pending("MarketId::new")
    /\ ret' = <<MarketId_new(call.id)>>
    /\ UNCHANGED <<call, config, request, response, previous, replied>>

CallSubaccountIdNew ==
    /\ Pending("SubaccountId::new")
    /\ ret' = <<SubaccountId_new(call.id)>>
    /\ UNCHANGED <<call, config, request, response, previous, replied>>

PureNext ==
    \/ CallMarketIdNew
    \/ CallSubaccountIdNew
    \/ CallCreateOrders
    \/ CallInvImbalanceDeriv
    \/ CallHeadChgIsGtTol
    \/ CallNewTailPrices
    \/ CallSplitOpenOrders
    \/ CallReservationPrice
    \/ CallNewHeadPrices

PureSpec == PureInit /\ [][PureNext]_vars

Returned(fn) == call.fn = fn /\ ret # NotCalled

----------------------------------------------------------------------------
(* Properties of the pure functions, checked under PureSpec *)

\* |a - b| on the integers
AbsDiff(a, b) == IF a > b THEN a - b ELSE b - a

\* C1: for a non-empty side, head_chg_is_gt_tol returns false exactly when the
\* relative change |old_head - new_head| / old_head of the head at index 0, as
\* a Decimal quotient (truncated, 0 for a zero old head), is at most
\* head_chg_tol; a change equal to the tolerance gives false, a quotient above
\* it gives true.
C1_GateFalseIffChangeWithinTol ==
    (Returned("head_chg_is_gt_tol") /\ Len(call.open_orders) > 0) =>
        LET old_head == call.open_orders[1].price
            chg      == AbsDiff(old_head, call.new_head)
            tol      == call.head_chg_tol
        IN  /\ (ret[1] = FALSE) <=>
                   (old_head = 0 \/ chg * DecimalFractional < (tol + 1) * old_head)
            /\ (old_head > 0 /\ chg * DecimalFractional = tol * old_head) => ret[1] = FALSE
            /\ (old_head > 0 /\ chg * DecimalFractional >= (tol + 1) * old_head) => ret[1] = TRUE

\* C1 witness: a head that moved by exactly the tolerance, and the gate stayed shut
C1_Witness ==
    /\ Returned("head_chg_is_gt_tol")
    /\ Len(call.open_orders) > 0
    /\ call.open_orders[1].price > 0
    /\ call.new_head # call.open_orders[1].price
    /\ AbsDiff(call.open_orders[1].price, call.new_head) * DecimalFractional
          = call.head_chg_tol * call.open_orders[1].price
    /\ ret[1] = FALSE

\* C2: head_chg_is_gt_tol returns true for an empty side, whatever the new head
\* and the tolerance.
C2_EmptySideTripsGate ==
    (Returned("head_chg_is_gt_tol") /\ call.open_orders = <<>>) => ret[1] = TRUE

\* C2 witness: an empty side, tolerance 1, and the gate tripped
C2_Witness ==
    /\ Returned("head_chg_is_gt_tol")
    /\ call.open_orders = <<>>
    /\ call.head_chg_tol = One
    /\ ret[1] = TRUE

\* C3: the tails new_tail_prices returns are at least min_tail_dist away from
\* their heads, relative to the head, the products being rounded as the code
\* rounds them: (buy_head - buy_tail) / buy_head >= min_tail_dist and
\* (sell_tail - sell_head) / sell_head >= min_tail_dist.
C3_TailsKeepMinDist ==
    (/\ Returned("new_tail_prices")
     /\ ~IsPanic(ret[1][1])
     /\ call.mid_price > 0
     /\ call.buy_head > 0
     /\ call.sell_head > 0) =>
        /\ (call.buy_head - ret[1][1]) * DecimalFractional
              >= call.min_tail_dist * call.buy_head
        /\ (ret[1][2] - call.sell_head) * DecimalFractional
              >= call.min_tail_dist * call.sell_head

\* the Decimal quotient num / denom, 0 for a zero denominator
Quotient(num, denom) == IF denom = 0 THEN 0 ELSE (num * DecimalFractional) \div denom

\* C4: new_tail_prices proposes mid_price * (1 - tail_dist_from_mid) and
\* mid_price * (1 + tail_dist_from_mid); each side returns its proposal when
\* that lies at least min_tail_dist from the side's head, and otherwise
\* buy_head * (1 - min_tail_dist), sell_head * (1 + min_tail_dist).
C4_TailsProposedOrEnforced ==
    Returned("new_tail_prices") =>
        LET S    == DecimalFractional
            pbt  == (call.mid_price * (S - call.tail_dist_from_mid)) \div S
            pst  == (call.mid_price * (S + call.tail_dist_from_mid)) \div S
            bfar == /\ pbt <= call.buy_head
                    /\ Quotient(call.buy_head - pbt, call.buy_head) >= call.min_tail_dist
            sfar == /\ pst >= call.sell_head
                    /\ Quotient(pst - call.sell_head, call.sell_head) >= call.min_tail_dist
        IN  /\ ret[1][1] = IF bfar THEN pbt
                           ELSE (call.buy_head * (S - call.min_tail_dist)) \div S
            /\ ret[1][2] = IF sfar THEN pst
                           ELSE (call.sell_head * (S + call.min_tail_dist)) \div S

\* C4 witness: one call in which the buy proposal passed and the sell tail was enforced
C4_Witness ==
    /\ Returned("new_tail_prices")
    /\ call.tail_dist_from_mid > 0
    /\ call.min_tail_dist > 0
    /\ 0 < call.buy_head
    /\ call.buy_head < call.mid_price
    /\ call.mid_price < call.sell_head
    /\ ret[1][1] = Mul(call.mid_price, One - call.tail_dist_from_mid)
    /\ ret[1][1] # Mul(call.buy_head, One - call.min_tail_dist)
    /\ ret[1][2] = Mul(call.sell_head, One + call.min_tail_dist)
    /\ ret[1][2] # Mul(call.mid_price, One + call.tail_dist_from_mid)

\* the orders of one type among the orders given
OfType(orders, order_type) ==
    { orders[i] : i \in { j \in 1 .. Len(orders) : orders[j].order_type = order_type } }

\* C5: split_open_orders returns the buys in non-increasing and the sells in
\* non-decreasing price order, index 0 holding the highest buy and the lowest
\* sell of the input; strictly ordered when the prices on a side differ; two
\* empty sequences for an empty input.
C5_SplitSortsHeadFirst ==
    Returned("split_open_orders") =>
        LET buys  == ret[1][1]
            sells == ret[1][2]
        IN  /\ \A i \in 1 .. Len(buys) - 1 : buys[i].price >= buys[i + 1].price
            /\ \A i \in 1 .. Len(sells) - 1 : sells[i].price <= sells[i + 1].price
            /\ (buys # <<>>) <=> (OfType(call.open_orders, BuyType) # {})
            /\ (sells # <<>>) <=> (OfType(call.open_orders, SellType) # {})
            /\ \A o \in OfType(call.open_orders, BuyType) : buys[1].price >= o.price
            /\ \A o \in OfType(call.open_orders, SellType) : sells[1].price <= o.price
            /\ (\A i, j \in 1 .. Len(buys) : i # j => buys[i].price # buys[j].price)
                  => \A i \in 1 .. Len(buys) - 1 : buys[i].price > buys[i + 1].price
            /\ (\A i, j \in 1 .. Len(sells) : i # j => sells[i].price # sells[j].price)
                  => \A i \in 1 .. Len(sells) - 1 : sells[i].price < sells[i + 1].price
            /\ call.open_orders = <<>> => (buys = <<>> /\ sells = <<>>)

\* C5 witness: buys given in ascending order came back strictly descending
C5_Witness ==
    /\ Returned("split_open_orders")
    /\ Len(call.open_orders) >= 3
    /\ \A i \in 1 .. Len(call.open_orders) : call.open_orders[i].order_type = BuyType
    /\ \A i \in 1 .. Len(call.open_orders) - 1 :
          call.open_orders[i].price < call.open_orders[i + 1].price
    /\ Len(ret[1][1]) = Len(call.open_orders)
    /\ \A i \in 1 .. Len(ret[1][1]) - 1 : ret[1][1][i].price > ret[1][1][i + 1].price

\* C8: reservation_price returns mid_price unchanged when the imbalance is zero.
C8_ZeroImbalanceKeepsMid ==
    (Returned("reservation_price") /\ call.inv_imbal = 0) => ret[1] = call.mid_price

\* C8 witness: zero imbalance with volatility and reservation_param that would shift
C8_Witness ==
    /\ Returned("reservation_price")
    /\ call.inv_imbal = 0
    /\ call.mid_price > 0
    /\ Mul(call.volatility, call.reservation_param) > 0
    /\ ret[1] = call.mid_price

\* the shift of the reservation price, each product truncated
Shift(inv_imbal, volatility, reservation_param) ==
    (((inv_imbal * volatility) \div DecimalFractional) * reservation_param)
        \div DecimalFractional

\* C9 as stated: with imbalance > 0 the reservation price is strictly below
\* the mid price when long and strictly above it when short.
C9_StrictlyShifted ==
    (/\ Returned("reservation_price")
     /\ call.mid_price > 0
     /\ call.inv_imbal > 0
     /\ ~IsPanic(ret[1])) =>
        IF call.imbal_is_long THEN ret[1] < call.mid_price ELSE ret[1] > call.mid_price

\* C9 amended: with imbalance > 0 and s the truncated product
\* imbalance * volatility * reservation_param, a long imbalance returns
\* mid_price - s (and nothing, the subtraction panicking, when s > mid_price),
\* a short one mid_price + s; the result leaves the mid price exactly when s > 0.
C9_ShiftedByTruncatedProduct ==
    (Returned("reservation_price") /\ call.inv_imbal > 0) =>
        LET s == Shift(call.inv_imbal, call.volatility, call.reservation_param)
        IN  IF call.imbal_is_long
            THEN IF s > call.mid_price
                 THEN IsPanic(ret[1])
                 ELSE /\ ret[1] = call.mid_price - s
                      /\ (ret[1] < call.mid_price) <=> (s > 0)
            ELSE /\ ret[1] = call.mid_price + s
                 /\ (ret[1] > call.mid_price) <=> (s > 0)

\* C9 witness: a long imbalance that moved the reservation price below the mid
\* price, the product having lost a fraction to truncation
C9_Witness ==
    /\ Returned("reservation_price")
    /\ call.inv_imbal > 0
    /\ call.imbal_is_long
    /\ ~IsPanic(ret[1])
    /\ ret[1] < call.mid_price
    /\ (call.inv_imbal * call.volatility) % DecimalFractional # 0

\* the half spread, the product truncated and then halved
HalfSpread(volatility, spread_param) ==
    ((volatility * spread_param) \div DecimalFractional) \div 2

\* C10 as stated: buy_head < reservation_price < sell_head whenever
\* volatility > 0 and spread_param > 0, however small their product.
C10_HeadsStrictlyAround ==
    (/\ Returned("new_head_prices")
     /\ call.volatility > 0
     /\ call.spread_param > 0
     /\ call.reservation_price > 0
     /\ ~IsPanic(ret[1][1])) =>
        ret[1][1] < call.reservation_price /\ call.reservation_price < ret[1][2]

\* C10 amended: whenever new_head_prices returns, buy_head <= reservation_price
\* <= sell_head, and both inequalities are strict exactly when the truncated
\* half spread volatility * spread_param / 2 is at least one atomic unit.
C10_HeadsAroundStrictIffHalfSpread ==
    (Returned("new_head_prices") /\ ~IsPanic(ret[1][1])) =>
        LET d == HalfSpread(call.volatility, call.spread_param)
        IN  /\ ret[1][1] <= call.reservation_price
            /\ call.reservation_price <= ret[1][2]
            /\ (ret[1][1] < call.reservation_price) <=> (d > 0)
            /\ (call.reservation_price < ret[1][2]) <=> (d > 0)

\* C10 witness: positive volatility and spread_param, and heads strictly around
C10_Witness ==
    /\ Returned("new_head_prices")
    /\ call.volatility > 0
    /\ call.spread_param > 0
    /\ ~IsPanic(ret[1][1])
    /\ ret[1][1] < call.reservation_price
    /\ call.reservation_price < ret[1][2]

\* C11: the heads new_head_prices returns lie at the same distance
\* d = volatility * spread_param / 2 from the reservation price, buy_head below
\* and sell_head above it; with zero volatility or zero spread_param it returns,
\* and both heads are the reservation price.
C11_HeadsEquidistant ==
    Returned("new_head_prices") =>
        LET d == HalfSpread(call.volatility, call.spread_param)
        IN  /\ ~IsPanic(ret[1][1]) =>
                  /\ ret[1][1] = call.reservation_price - d
                  /\ ret[1][2] = call.reservation_price + d
            /\ (call.volatility = 0 \/ call.spread_param = 0) =>
                  ret[1] = <<call.reservation_price, call.reservation_price>>

\* C11 witness: heads one half spread of at least two atomics away on each side
C11_Witness ==
    /\ Returned("new_head_prices")
    /\ ~IsPanic(ret[1][1])
    /\ HalfSpread(call.volatility, call.spread_param) >= 2
    /\ call.reservation_price - ret[1][1] = ret[1][2] - call.reservation_price
    /\ ret[1][2] - call.reservation_price = HalfSpread(call.volatility, call.spread_param)

\* the active share of the account: inv_val * active_capital, truncated
ActiveValue == (call.inv_val * call.state.active_capital) \div DecimalFractional

\* C14: the capital create_orders allocates to new orders is
\* inv_val * active_capital less the margin of the existing position, and is
\* zero, never negative, when the margin is the larger of the two.
C14_AllocClampedAtZero ==
    Returned("create_orders") =>
        /\ ret[1].alloc_val_for_new_orders >= Zero
        /\ ret[1].alloc_val_for_new_orders =
              IF ret[1].position_margin >= ActiveValue THEN Zero
              ELSE ActiveValue - ret[1].position_margin

\* C14 witness: a position on the side being quoted whose margin exceeds the
\* active share of a funded account, and a zero allocation
C14_Witness ==
    /\ Returned("create_orders")
    /\ call.new_head > Zero
    /\ call.position # None
    /\ call.position[1].quantity > Zero
    /\ ActiveValue > Zero
    /\ ret[1].position_margin > ActiveValue
    /\ ret[1].alloc_val_for_new_orders = Zero

\* C15: with order_density = 1 and a non-zero allocation, the ladder
\* create_orders returns is one order of the side, priced at the head, whatever
\* the head, the tail and the side.
C15_DensityOneOnlyHead ==
    (/\ Returned("create_orders")
     /\ call.state.order_density = 1
     /\ ret[1].alloc_val_for_new_orders # Zero) =>
        /\ Len(ret[1].orders) = 1
        /\ ret[1].orders[1].price = call.new_head
        /\ ret[1].orders[1].order_type = IF call.is_buy THEN BuyType ELSE SellType

\* C15 witness: a one-level sell ladder at a head that differs from the tail,
\* with a quantity bought by the allocation
C15_Witness ==
    /\ Returned("create_orders")
    /\ call.state.order_density = 1
    /\ ~call.is_buy
    /\ call.new_head > Zero
    /\ call.new_tail > call.new_head
    /\ ret[1].alloc_val_for_new_orders > Zero
    /\ ret[1].position_qty = Zero
    /\ Len(ret[1].orders) = 1
    /\ ret[1].orders[1].price = call.new_head
    /\ ret[1].orders[1].quantity > Zero

\* C16: the inventory imbalance is a value in [0, 1] for every position and
\* account value, a zero account value included, and is 0 when there is no
\* position or its quantity is zero.
C16_ImbalanceInUnitRange ==
    Returned("inv_imbalance_deriv") =>
        /\ Zero <= ret[1][1]
        /\ ret[1][1] <= One
        /\ (call.position = None \/ call.position[1].quantity = Zero) => ret[1][1] = Zero

\* C16 witness: a position worth more than the whole account, imbalance one
C16_Witness ==
    /\ Returned("inv_imbalance_deriv")
    /\ call.position # None
    /\ call.inv_val > Zero
    /\ call.position[1].quantity * call.position[1].entry_price
           > call.inv_val * DecimalFractional
    /\ ret[1][1] = One

\* a position held against a zero account value, and a well-formed imbalance
C16_ZeroAccountWitness ==
    /\ Returned("inv_imbalance_deriv")
    /\ call.position # None
    /\ call.position[1].quantity > Zero
    /\ call.inv_val = Zero
    /\ ret[1][1] \in 0 .. One

IdReturned == Returned("MarketId::new") \/ Returned("SubaccountId::new")

\* the error a constructor reports for a string without the prefix
PrefixError ==
    IF call.fn = "MarketId::new" THEN "Invalid prefix: market_id must start with 0x"
    ELSE "Invalid prefix: subaccount_id must start with 0x"

\* C17: MarketId::new and SubaccountId::new accept a string exactly when it
\* starts with "0x" and has 66 characters; a string that fails both checks is
\* refused with the prefix error; an accepted identifier is stored lowercased.
C17_AcceptIffPrefixAnd66Chars ==
    IdReturned =>
        /\ ret[1].ok <=> (starts_with(call.id, HexPrefix) /\ Len(call.id) = IdLen)
        /\ ~starts_with(call.id, HexPrefix) => ret[1].err = PrefixError
        /\ ret[1].ok => ret[1].id = to_lowercase(call.id)

\* what the constructors do: the length they compare with 66 is the number of
\* bytes; the prefix error comes first; the stored identifier is lowercased
C17_AcceptIffPrefixAnd66Bytes ==
    IdReturned =>
        /\ ret[1].ok <=> (starts_with(call.id, HexPrefix) /\ len(call.id) = IdLen)
        /\ ~starts_with(call.id, HexPrefix) => ret[1].err = PrefixError
        /\ ret[1].ok => /\ ret[1].id = to_lowercase(call.id)
                        /\ \A i \in 1 .. Len(ret[1].id) : ret[1].id[i] \notin {"A", "X"}

\* an accepted identifier of 66 ASCII characters written in upper case
C17_AsciiAccepted ==
    /\ IdReturned
    /\ ret[1].ok
    /\ Len(call.id) = IdLen
    /\ call.id[IdLen] = "A"
    /\ ret[1].id[IdLen] = "a"

\* C18: create_orders picks the capital basis by the direction of the position.
\* Position on the side being quoted (long and buy, short and sell): its margin
\* is what is subtracted from the active share of the account, and the quantity
\* handed to the ladder builder is zero. Position on the other side: nothing is
\* subtracted and the quantity of the position is handed over. No position:
\* both are zero.
C18_BasisFollowsDirection ==
    Returned("create_orders") =>
        LET p == call.position
            same == p # None /\ p[1].is_long = call.is_buy
        IN  /\ p = None => (ret[1].position_qty = Zero /\ ret[1].position_margin = Zero)
            /\ same => /\ ret[1].position_qty = Zero
                       /\ ret[1].position_margin = p[1].margin
                       /\ ret[1].alloc_val_for_new_orders =
                              IF p[1].margin >= ActiveValue THEN Zero
                              ELSE ActiveValue - p[1].margin
            /\ (p # None /\ ~same) =>
                       /\ ret[1].position_qty = p[1].quantity
                       /\ ret[1].position_margin = Zero
                       /\ ret[1].alloc_val_for_new_orders = ActiveValue

\* C18 witness: buy orders quoted against a short position: the whole active
\* share is allocated although the position has margin, and the ladder
\* carries the quantity of the position
C18_Witness ==
    /\ Returned("create_orders")
    /\ call.new_head > Zero
    /\ call.is_buy
    /\ call.position # None
    /\ ~call.position[1].is_long
    /\ call.position[1].margin > Zero
    /\ call.position[1].quantity > Zero
    /\ ActiveValue > call.position[1].margin
    /\ ret[1].position_qty = call.position[1].quantity
    /\ ret[1].alloc_val_for_new_orders = ActiveValue
    /\ ret[1].orders # <<>>

\* a sell ladder quoted from the capital left by the margin of a short position
C18_SameSideWitness ==
    /\ Returned("create_orders")
    /\ call.new_head > Zero
    /\ ~call.is_buy
    /\ call.position # None
    /\ ~call.position[1].is_long
    /\ call.position[1].margin > Zero
    /\ call.position[1].quantity > Zero
    /\ ret[1].position_qty = Zero
    /\ ret[1].alloc_val_for_new_orders = ActiveValue - call.position[1].margin
    /\ ret[1].alloc_val_for_new_orders > Zero

\* how many times an order occurs in a sequence of orders
Count(orders, o) == Cardinality({ i \in 1 .. Len(orders) : orders[i] = o })

\* the orders of a sequence
Orders(orders) == { orders[i] : i \in 1 .. Len(orders) }

\* C21: split_open_orders neither loses nor duplicates an order: every order
\* of type 1 occurs in the buy output as many times as in the input and not in
\* the sell output, every order of type 2 occurs in the sell output as many
\* times as in the input and not in the buy output, and an order of any other
\* type occurs in neither output.
C21_SplitKeepsEachOrderOnce ==
    Returned("split_open_orders") =>
        \A o \in Orders(call.open_orders) \cup Orders(ret[1][1]) \cup Orders(ret[1][2]) :
            /\ Count(ret[1][1], o) =
                   IF o.order_type = BuyType THEN Count(call.open_orders, o) ELSE 0
            /\ Count(ret[1][2], o) =
                   IF o.order_type = SellType THEN Count(call.open_orders, o) ELSE 0

\* C21 witness: a book with a buy, a sell and an order of another type; the
\* outputs hold the buy and the sell and nothing else
C21_Witness ==
    /\ Returned("split_open_orders")
    /\ \E i \in 1 .. Len(call.open_orders) :
          call.open_orders[i].order_type \notin {BuyType, SellType}
    /\ Len(ret[1][1]) = 1
    /\ Len(ret[1][2]) = 1
    /\ Len(call.open_orders) = 3

\* a buy order that occurs twice in the input and twice in the buy output
C21_RepeatedOrderWitness ==
    /\ Returned("split_open_orders")
    /\ \E o \in Orders(call.open_orders) :
          /\ o.order_type = BuyType
          /\ Count(call.open_orders, o) = 2
          /\ Count(ret[1][1], o) = 2

----------------------------------------------------------------------------
(* The contract: instantiate once, then get_action queries *)

ContractAddr == "maker"

MarketIdStr == "0xmarket"

InRangeMsgs ==
    [market_id             : {MarketIdStr},
     sub_account           : {"0xsubaccount"},
     fee_recipient         : {"fee"},
     is_deriv              : {TRUE},
     leverage              : {One},
     order_density         : {1, 2},
     max_market_data_delay : {5},
     reservation_param     : {One \div 2},
     spread_param          : {One \div 2, One},
     active_capital        : {One \div 2},
     head_chg_tol_bp       : {Zero, 1000 * One, BasisPoints * One},
     tail_dist_from_mid_bp : {1000 * One, 5000 * One},
     min_tail_dist_bp      : {1000 * One}]

\* a message with every parameter in range
BaseMsg ==
    [market_id |-> MarketIdStr, sub_account |-> "0xsubaccount", fee_recipient |-> "fee",
     is_deriv |-> TRUE, leverage |-> One, order_density |-> 2, max_market_data_delay |-> 5,
     reservation_param |-> One \div 2, spread_param |-> One \div 2,
     active_capital |-> One \div 2, head_chg_tol_bp |-> 1000 * One,
     tail_dist_from_mid_bp |-> 1000 * One, min_tail_dist_bp |-> 1000 * One]

\* messages with one parameter outside its documented range: a fraction above
\* one, a zero leverage, a zero order_density
OutOfRangeMsgs ==
    {[BaseMsg EXCEPT !.reservation_param = 2 * One],
     [BaseMsg EXCEPT !.spread_param = 2 * One],
     [BaseMsg EXCEPT !.active_capital = 2 * One],
     [BaseMsg EXCEPT !.head_chg_tol_bp = 2 * BasisPoints * One],
     [BaseMsg EXCEPT !.tail_dist_from_mid_bp = 2 * BasisPoints * One],
     [BaseMsg EXCEPT !.min_tail_dist_bp = 2 * BasisPoints * One],
     [BaseMsg EXCEPT !.leverage = Zero],
     [BaseMsg EXCEPT !.order_density = 0]}

InstantiateMsgs == InRangeMsgs \cup OutOfRangeMsgs

\* the position of the subaccount, if any
Positions ==
    {None}
    \cup { Some([is_long |-> l, quantity |-> One \div 2, entry_price |-> One,
                 margin |-> 3]) : l \in BOOLEAN }

\* type and price of the orders that may rest on the book
BookKinds ==
    {<<BuyType, One - 1>>, <<BuyType, 2 * One - 1>>, <<SellType, One + 1>>,
     <<SellType, One + 2>>, <<SellType, 2 * One + 1>>, <<3, One>>}

Books == UNION { OrdersOfLen(n, BookKinds) : n \in 0 .. 2 }

\* the mid prices of the market
MidPrices == {One, 2 * One}

Requests ==
    [market     : {[market_id |-> MarketIdStr]},
     open_orders : Books,
     inv_val    : {Zero, 2 * One},
     position   : Positions,
     volatility : {Zero, 2, 4, 3 * One},
     mid_price  : MidPrices]

Init ==
    /\ call = [fn |-> "none"]
    /\ ret = NotCalled
    /\ config = None
    /\ request = None
    /\ response = None
    /\ previous = None
    /\ replied = None

Instantiate ==
    /\ config = None
    /\ \E msg \in InstantiateMsgs : config' = Some(NewState(msg))
    /\ UNCHANGED <<call, ret, request, response, previous, replied>>

\* query(GetAction): reads the saved State; the first query of a run
GetAction ==
    /\ config # None
    /\ response = None
    /\ previous = None
    /\ \E req \in Requests :
          /\ request' = Some(req)
          /\ response' = Some(get_action(config[1], ContractAddr, req))
    /\ UNCHANGED <<call, ret, config, previous, replied>>

\* the orders of a batch message once they rest on the book
Resting(orders_to_create) ==
    [i \in 1 .. Len(orders_to_create) |->
        [order_type |-> orders_to_create[i].order_type,
         price      |-> orders_to_create[i].price,
         order_hash |-> i]]

\* the exchange executes the plan of the last query: every order of the market
\* is cancelled and the created orders rest on the book
ApplyPlan ==
    /\ previous = None
    /\ response # None
    /\ ~response[1].panicked
    /\ response[1].msgs # <<>>
    /\ previous' = Some([request     |-> request[1],
                         response    |-> response[1],
                         open_orders |->
                             Resting(response[1].msgs[1].derivative_orders_to_create)])
    /\ request' = None
    /\ response' = None
    /\ UNCHANGED <<call, ret, config, replied>>

\* query(GetAction) in the next block: the open orders are those the applied
\* plan left, the mid price is any, the other arguments are as before
GetActionAgain ==
    /\ previous # None
    /\ response = None
    /\ \E m \in MidPrices :
          LET req == [previous[1].request EXCEPT !.open_orders = previous[1].open_orders,
                                                 !.mid_price = m]
          IN  /\ request' = Some(req)
              /\ response' = Some(get_action(config[1], ContractAddr, req))
    /\ UNCHANGED <<call, ret, config, previous, replied>>

Next ==
    \/ Instantiate
    \/ GetAction
    \/ ApplyPlan
    \/ GetActionAgain

Spec == Init /\ [][Next]_vars

----------------------------------------------------------------------------
(* The contract: instantiate and the replies to its submessage *)

\* the replies the contract may receive: the id of the instantiate submessage
\* or another, with the address of a token contract, an invalid address or no
\* data
ReplyMsgs ==
    [id   : {INSTANTIATE_REPLY_ID, INSTANTIATE_REPLY_ID + 1},
     data : {NoData, Some(""), Some("lp1"), Some("lp2")}]

Reply ==
    /\ \E msg \in ReplyMsgs :
          LET out == reply(config, msg)
          IN  /\ config' = out.stored
              /\ replied' = Some([msg |-> msg, result |-> out.result])
    /\ UNCHANGED <<call, ret, request, response, previous>>

ReplyNext ==
    \/ Instantiate
    \/ Reply

ReplySpec == Init /\ [][ReplyNext]_vars

----------------------------------------------------------------------------
(* Properties of get_action, checked under Spec *)

Answered == response # None /\ ~response[1].panicked

\* the heads get_action computes for a request: <<buy_head, sell_head>>
NewHeads(state, req) ==
    LET imbal == inv_imbalance_deriv(req.position, req.inv_val)
    IN  new_head_prices(req.volatility,
                        reservation_price(req.mid_price, imbal[1], req.volatility,
                                          state.reservation_param, imbal[2]),
                        state.spread_param)

\* the resting head of a side: the highest buy price, the lowest sell price
BestPrice(orders, order_type) ==
    LET side == OfType(orders, order_type)
        best == CHOOSE o \in side :
                    \A p \in side : IF order_type = BuyType THEN o.price >= p.price
                                                            ELSE o.price <= p.price
    IN  best.price

\* a side that has resting orders whose head is within tolerance of the new head
SideHolds(orders, order_type, new_head, tol) ==
    /\ OfType(orders, order_type) # {}
    /\ LET old_head == BestPrice(orders, order_type)
       IN  Quotient(AbsDiff(old_head, new_head), old_head) <= tol

BothSidesHold ==
    LET heads == NewHeads(config[1], request[1])
    IN  /\ SideHolds(request[1].open_orders, BuyType, heads[1], config[1].head_chg_tol)
        /\ SideHolds(request[1].open_orders, SellType, heads[2], config[1].head_chg_tol)

\* C6: when both sides have resting orders and each new head is within
\* tolerance of the resting head, the plan get_action returns has no message.
C6_NoTripEmptyPlan ==
    (Answered /\ BothSidesHold) => response[1].msgs = <<>>

\* C6 witness: a book with both sides, a strictly positive tolerance that both
\* heads respect without matching the resting heads, and the empty plan
C6_Witness ==
    /\ Answered
    /\ BothSidesHold
    /\ config[1].head_chg_tol > 0
    /\ NewHeads(config[1], request[1])[1] # BestPrice(request[1].open_orders, BuyType)
    /\ response[1].msgs = <<>>

\* C7: when a side is empty or its head moved beyond tolerance, the plan is one
\* batch message that cancels every derivative order of the configured market,
\* cancels nothing else, and creates the new buy ladder followed by the new
\* sell ladder, both built around the one new reservation price.
C7_TripReplacesBothSides ==
    (Answered /\ ~BothSidesHold) =>
        LET state == config[1]
            req   == request[1]
            heads == NewHeads(state, req)
            tails == new_tail_prices(heads[1], heads[2], req.mid_price,
                                     state.tail_dist_from_mid, state.min_tail_dist)
            buys  == create_orders(heads[1], tails[1], req.inv_val, req.position,
                                   TRUE, state, req.market)
            sells == create_orders(heads[2], tails[2], req.inv_val, req.position,
                                   FALSE, state, req.market)
        IN  /\ Len(response[1].msgs) = 1
            /\ LET msg == response[1].msgs[1]
               IN  /\ msg.derivative_market_ids_to_cancel_all = <<state.market_id>>
                   /\ msg.derivative_orders_to_cancel = <<>>
                   /\ msg.spot_market_ids_to_cancel_all = <<>>
                   /\ msg.spot_orders_to_cancel = <<>>
                   /\ msg.spot_orders_to_create = <<>>
                   /\ msg.derivative_orders_to_create = buys \o sells

\* C7 witness: the buy side held, the sell side tripped, and the plan creates
\* orders on both sides
C7_Witness ==
    /\ Answered
    /\ LET heads == NewHeads(config[1], request[1])
       IN  /\ SideHolds(request[1].open_orders, BuyType, heads[1], config[1].head_chg_tol)
           /\ OfType(request[1].open_orders, SellType) # {}
           /\ ~SideHolds(request[1].open_orders, SellType, heads[2], config[1].head_chg_tol)
    /\ Len(response[1].msgs) = 1
    /\ \E i, j \in 1 .. Len(response[1].msgs[1].derivative_orders_to_create) :
          /\ i < j
          /\ response[1].msgs[1].derivative_orders_to_create[i].order_type = BuyType
          /\ response[1].msgs[1].derivative_orders_to_create[j].order_type = SellType

\* a State whose parameters are in the ranges state.rs documents
ValidState(state) ==
    /\ state.leverage > Zero
    /\ state.order_density > 0
    /\ \A f \in {state.reservation_param, state.spread_param, state.active_capital,
                 state.head_chg_tol, state.tail_dist_from_mid, state.min_tail_dist} :
          Zero <= f /\ f <= One

\* C13: instantiate saves no State for a message with a fractional parameter
\* outside [0, 1], a leverage that is not positive or a zero order_density, so
\* every State get_action can load is in range.
C13_OutOfRangeNeverSaved == config # None => ValidState(config[1])

\* a request with a positive mid price and a non-negative volatility
ValidRequest(req) == req.mid_price > Zero /\ req.volatility >= Zero /\ req.inv_val >= Zero

\* C12: for a State in range and a request with positive mid price and
\* non-negative volatility, get_action returns a plan: neither
\* mid_price - inv_imbal * volatility * reservation_param nor
\* reservation_price - volatility * spread_param / 2 goes below zero.
C12_GetActionTotal ==
    (response # None /\ ValidState(config[1]) /\ ValidRequest(request[1])) =>
        ~response[1].panicked

\* the orders the applied plan created on a side
CreatedOfType(order_type) ==
    OfType(previous[1].response.msgs[1].derivative_orders_to_create, order_type)

\* the last query came after an applied plan that created orders on both
\* sides, with the arguments of the query before it but for the open orders
SecondQueryUnchanged ==
    /\ previous # None
    /\ response # None
    /\ CreatedOfType(BuyType) # {}
    /\ CreatedOfType(SellType) # {}
    /\ request[1] = [previous[1].request EXCEPT !.open_orders = previous[1].open_orders]

\* C19: when a query returns a replace plan with orders on both sides, the
\* plan is applied so that the created orders are the resting orders, and the
\* next query has the same mid price, volatility, position, account value
\* and State, the next query returns the empty plan.
C19_SecondQueryEmptyPlan ==
    SecondQueryUnchanged => (~response[1].panicked /\ response[1].msgs = <<>>)

\* C19 witness: two-level ladders on both sides, a zero tolerance, and an
\* empty second plan
C19_Witness ==
    /\ SecondQueryUnchanged
    /\ config[1].head_chg_tol = Zero
    /\ config[1].order_density = 2
    /\ request[1].volatility > Zero
    /\ \A o \in CreatedOfType(BuyType), p \in CreatedOfType(SellType) : o.price < p.price
    /\ \E o, p \in CreatedOfType(BuyType) : o.price > p.price
    /\ \E o, p \in CreatedOfType(SellType) : o.price < p.price
    /\ response[1].msgs = <<>>

\* the resting orders of the last query have no buy order or no sell order
SideEmpty ==
    \/ OfType(request[1].open_orders, BuyType) = {}
    \/ OfType(request[1].open_orders, SellType) = {}

\* C20: the plan of a query whose resting orders have no buy order or no sell
\* order is a cancel-all-and-replace plan, whatever the tolerance and the other
\* side, with empty ladders too; this holds of the first query and of the
\* query that follows an applied plan, so a side that stays empty keeps the
\* plans coming.
C20_EmptySideAlwaysReplaces ==
    (Answered /\ SideEmpty) =>
        /\ Len(response[1].msgs) = 1
        /\ response[1].msgs[1].derivative_market_ids_to_cancel_all = <<config[1].market_id>>

\* C20 witness: a second query after a plan that created no order, and again a
\* replace plan that creates no order, under the largest tolerance
C20_Witness ==
    /\ Answered
    /\ previous # None
    /\ previous[1].open_orders = <<>>
    /\ config[1].head_chg_tol = One
    /\ Len(response[1].msgs) = 1
    /\ response[1].msgs[1].derivative_orders_to_create = <<>>

\* resting buys whose head is the new buy head, no resting sell, a positive
\* tolerance, and a replace plan
C20_OtherSideHoldsWitness ==
    /\ Answered
    /\ config[1].head_chg_tol > Zero
    /\ OfType(request[1].open_orders, SellType) = {}
    /\ SideHolds(request[1].open_orders, BuyType, NewHeads(config[1], request[1])[1],
                 config[1].head_chg_tol)
    /\ Len(response[1].msgs) = 1

----------------------------------------------------------------------------
(* Properties of instantiate and reply, under ReplySpec *)

\* C22: instantiate saves the State with lp_token_address "LP-Token"; a reply
\* with id 1 that returns Ok changes lp_token_address to the address of the
\* instantiated contract and no other field of the State; a reply that fails
\* changes nothing, and a reply with any other id returns an error.
C22_ReplyChangesOnlyLpToken ==
    [][/\ (config = None /\ config' # None) => config'[1].lp_token_address = "LP-Token"
       /\ replied' # replied =>
             LET msg == replied'[1].msg
                 result == replied'[1].result
             IN  /\ msg.id # INSTANTIATE_REPLY_ID => (result = "err" /\ config' = config)
                 /\ result # "ok" => config' = config
                 /\ result = "ok" =>
                       /\ config # None
                       /\ config' = Some([config[1] EXCEPT
                                             !.lp_token_address = msg.data[1]])]_vars

\* C22 witness: after instantiate and a reply with id 1, the State holds the
\* address of the token and the parameters of the message
C22_Witness ==
    /\ replied # None
    /\ replied[1].msg.id = INSTANTIATE_REPLY_ID
    /\ replied[1].result = "ok"
    /\ config # None
    /\ config[1].lp_token_address = replied[1].msg.data[1]
    /\ config[1].lp_token_address = "lp2"
    /\ \E m \in InstantiateMsgs :
          config[1] = [NewState(m) EXCEPT !.lp_token_address = "lp2"]

\* a reply with another id after the token address was set: an error, and
\* the address stays
C22_UnknownIdWitness ==
    /\ replied # None
    /\ replied[1].msg.id # INSTANTIATE_REPLY_ID
    /\ replied[1].msg.data = Some("lp1")
    /\ replied[1].result = "err"
    /\ config # None
    /\ config[1].lp_token_address = "lp2"

====
